---- MODULE Spec2Model ----
(***************************************************************************)
(* Model of the spalign conversation synthesis engine:                     *)
(*   - the progress ledger          (src/src/spalign/database.py)          *)
(*   - the generation driver        (src/scripts/generation/conversation.py)*)
(*   - the per-scenario task        (src/src/spalign/conversation.py)      *)
(*   - the vLLM micro-batcher       (src/src/spalign/batcher.py)           *)
(***************************************************************************)
EXTENDS Integers, Sequences, FiniteSets, TLC

VARIABLES
    source,           \* the records of the scenario repository (--scenario)
    table,            \* the rows of the sqlite table "conversations"
    files,            \* ids of the transcript files in conversations_dir
    driver,           \* main(): [pc, mode, runs, ignored]
    tasks,            \* the limited_task coroutines of the current run
    max_concurrency,  \* --max_concurrency
    n_turns,          \* --turns
    persona_pool,     \* the persona table --persona_type selects (PERSONAS, ...)
    llm_texts,        \* the texts the dialogue model (--model) can return
    gpt_concurrency,  \* --gpt_concurrency
    ledger_fails,     \* the ledger file can refuse a write (sqlite3.Error)
    rng,              \* the generator of the random module: [seed, pos]
    queue,            \* VLLMBatcher.queue: the requests not yet dequeued
    runner,           \* VLLMBatcher._runner: [pc, prompts, futures, start]
    futs,             \* the futures put() created: [prompt, state, result]
    now,              \* the event loop's clock
    max_batch,        \* VLLMBatcher.max_batch
    max_latency,      \* VLLMBatcher.max_latency
    calls,            \* the llm.generate calls so far: [prompts, futures, outcome, outs]
    lateArrival,      \* a request was enqueued after the runner's first dequeue
    cutShort          \* a batch was closed by the latency cap with requests still queued

ledgerVars == <<source, table, files, driver, tasks, max_concurrency, n_turns,
                persona_pool, llm_texts, gpt_concurrency, ledger_fails, rng>>
batchVars == <<queue, runner, futs, now, max_batch, max_latency, calls, lateArrival, cutShort>>
vars == <<source, table, files, driver, tasks, max_concurrency, n_turns,
          persona_pool, llm_texts, gpt_concurrency, ledger_fails, rng,
          queue, runner, futs, now, max_batch, max_latency, calls, lateArrival, cutShort>>

(***************************************************************************)
(* Bounds of the model.                                                    *)
(***************************************************************************)
MaxDataset == 2
MaxRuns == 2

Max(a, b) == IF a >= b THEN a ELSE b
Min(a, b) == IF a <= b THEN a ELSE b
Last(s) == s[Len(s)]
Range(s) == {s[i] : i \in DOMAIN s}

(***************************************************************************)
(* Scenario records.  A dict is the sequence of its (key, value) items in  *)
(* insertion order; the value of "metadata" is a dict (conversation.py,     *)
(* line 120), every other value is a sequence of strings.                  *)
(***************************************************************************)
DictKeys == {"metadata"}

DataA == << <<"scenario", <<"s1">> >>, <<"character_list", <<"A", "B">> >> >>
DataB == << <<"character_list", <<"A", "B">> >>, <<"scenario", <<"s2">> >> >>
DataBad == << <<"character_list", <<"A", "B">> >> >>
DataNested ==
    << <<"scenario", <<"s1">> >>,
       <<"metadata", << <<"users", <<"u1">> >>, <<"title", <<"t1">> >> >> >>,
       <<"character_list", <<"A", "B">> >> >>

HasKey(data, k) == \E i \in DOMAIN data : data[i][1] = k
GetKey(data, k) == data[CHOOSE i \in DOMAIN data : data[i][1] = k][2]

\* The order json.dumps(sort_keys=True) gives the keys.
KeyRank(k) ==
    CASE k = "character_list" -> 1
      [] k = "metadata" -> 2
      [] k = "scenario" -> 3
      [] k = "title" -> 4
      [] k = "users" -> 5

RECURSIVE SortItems(_)
SortItems(items) ==
    IF items = {} THEN <<>>
    ELSE LET m == CHOOSE x \in items : \A y \in items : KeyRank(x[1]) <= KeyRank(y[1])
         IN <<m>> \o SortItems(items \ {m})

\* json.dumps(data, sort_keys=True): the items in key order, those of a
\* nested dict too.
RECURSIVE Dumps(_)
Dumps(data) ==
    SortItems({ <<item[1], IF item[1] \in DictKeys THEN Dumps(item[2]) ELSE item[2]>> :
                  item \in Range(data) })

\* A hash of the items in insertion order.
HashInsertionOrder(data) == data

\* The md5 digest of the text is represented by the text itself.
get_scenario_hash(data) == Dumps(data)

\* The orders a dict can keep a set of items in.
RECURSIVE Orders(_)
Orders(items) ==
    IF items = {} THEN {<<>>}
    ELSE UNION { { <<x>> \o q : q \in Orders(items \ {x}) } : x \in items }

\* The records with the content of data: its keys and the keys of its
\* metadata in any order.
KeyOrders(data) ==
    UNION { Orders({ IF item[1] \in DictKeys THEN <<item[1], m>> ELSE item : item \in Range(data) }) :
              m \in Orders(Range(GetKey(data, "metadata"))) }

(***************************************************************************)
(* The ledger: database.py.  The table is the set of its rows             *)
(* [scenario_hash, status, result]; result is NULL, the stored             *)
(* conversation record or the stored error.  The columns no statement      *)
(* reads (id, created_at, updated_at) are left out.                        *)
(***************************************************************************)
NULL == [kind |-> "NULL"]

RowsOf(tbl, h) == {r \in tbl : r.scenario_hash = h}
HasRow(tbl, h) == RowsOf(tbl, h) # {}
StatusOf(tbl, h) == IF HasRow(tbl, h) THEN (CHOOSE r \in RowsOf(tbl, h) : TRUE).status ELSE "none"
PendingRow(h) == [scenario_hash |-> h, status |-> "pending", result |-> NULL]

\* A plain INSERT into a table without the UNIQUE constraint.
InsertPlain(tbl, h) == tbl \cup {PendingRow(h)}

\* INSERT OR REPLACE.
InsertOrReplace(tbl, h) == (tbl \ RowsOf(tbl, h)) \cup {PendingRow(h)}

\* INSERT OR IGNORE INTO conversations (scenario_hash, status) VALUES (?, 'pending')
\* against the UNIQUE constraint on scenario_hash.
InsertOrIgnore(tbl, h) ==
    IF HasRow(tbl, h) THEN tbl ELSE tbl \cup {PendingRow(h)}

RECURSIVE insert_pending_scenarios(_, _)
insert_pending_scenarios(tbl, ds) ==
    IF ds = <<>> THEN tbl
    ELSE insert_pending_scenarios(InsertOrIgnore(tbl, get_scenario_hash(Head(ds))), Tail(ds))

\* SELECT scenario_hash FROM conversations WHERE status = ?
HashesWithStatus(tbl, st) == {r.scenario_hash : r \in {x \in tbl : x.status = st}}

\* A filter that returns the whole dataset.
FilterKeepAll(ds, hashes) == ds

\* [data for data in dataset if get_scenario_hash(data) in hashes]
RECURSIVE FilterByHash(_, _)
FilterByHash(ds, hashes) ==
    IF ds = <<>> THEN <<>>
    ELSE IF get_scenario_hash(Head(ds)) \in hashes
         THEN <<Head(ds)>> \o FilterByHash(Tail(ds), hashes)
         ELSE FilterByHash(Tail(ds), hashes)

get_pending_scenarios(ds, tbl) == FilterByHash(ds, HashesWithStatus(tbl, "pending"))
get_failed_scenarios(ds, tbl) == FilterByHash(ds, HashesWithStatus(tbl, "failed"))

\* UPDATE conversations SET status = 'completed', result = ? WHERE scenario_hash = ?
mark_completed(tbl, h, result) ==
    {IF r.scenario_hash = h
     THEN [r EXCEPT !.status = "completed", !.result = result]
     ELSE r : r \in tbl}

\* UPDATE conversations SET status = 'failed', result = ? WHERE scenario_hash = ?
mark_failed(tbl, h, error) ==
    {IF r.scenario_hash = h
     THEN [r EXCEPT !.status = "failed", !.result = [kind |-> "error", error |-> error]]
     ELSE r : r \in tbl}

\* A reset that keeps the stored error and the failed status.
ResetNothing(tbl) == tbl

\* UPDATE conversations SET status = 'pending', result = NULL, without WHERE.
ResetEveryRow(tbl) == {[r EXCEPT !.status = "pending", !.result = NULL] : r \in tbl}

\* UPDATE conversations SET status = 'pending', result = NULL WHERE status = 'failed'
reset_failed_to_pending(tbl) ==
    {IF r.status = "failed"
     THEN [r EXCEPT !.status = "pending", !.result = NULL]
     ELSE r : r \in tbl}

\* cursor.rowcount of that UPDATE.
RowsAffectedByReset(tbl) == Cardinality({r \in tbl : r.status = "failed"})

\* SELECT status, COUNT(*) FROM conversations GROUP BY status
get_progress_stats(tbl) ==
    [st \in {r.status : r \in tbl} |-> Cardinality({r \in tbl : r.status = st})]

(***************************************************************************)
(* Text of the dialogue model: a sequence of tokens, each a word or a      *)
(* bracket tag.  utils.py.                                                 *)
(***************************************************************************)
EmotionTags == {"[emotion:joy]", "[emotion:sad]"}
NextTags == {"[next:myself]", "[next:user_00]", "[next:user_01]"}
OtherTags == {"[cammy]", "[ryu]"}
Words == {"hi"}
IsTag(tok) == tok \in EmotionTags \cup NextTags \cup OtherTags
None == "None"
DefaultNext == "[next:user_00]"

\* The loop body of parse_utterance on one tag; st is [speaker, emotion, next_speaker].
ParseTag(st, tok) ==
    IF tok \in EmotionTags /\ st.emotion = None THEN [st EXCEPT !.emotion = tok]
    ELSE IF tok \in NextTags /\ st.next_speaker = DefaultNext THEN [st EXCEPT !.next_speaker = tok]
    ELSE IF st.speaker = None THEN [st EXCEPT !.speaker = tok]
    ELSE st

RECURSIVE ParseTags(_, _)
ParseTags(toks, st) ==
    IF toks = <<>> THEN st
    ELSE ParseTags(Tail(toks), IF IsTag(Head(toks)) THEN ParseTag(st, Head(toks)) ELSE st)

parse_utterance(text) ==
    LET st == ParseTags(text, [speaker |-> None, emotion |-> None, next_speaker |-> DefaultNext])
    IN [speaker |-> st.speaker, emotion |-> st.emotion,
        cleaned_text |-> SelectSeq(text, LAMBDA tok : ~IsTag(tok)),
        next_speaker |-> st.next_speaker]

(***************************************************************************)
(* Persona parameters (personas.py).  Probabilities are in thousandths,    *)
(* decay in hundredths.                                                    *)
(***************************************************************************)
Personas ==
    { [name |-> "spammer", base_prob |-> 100, max_prob |-> 300, decay |-> 60, recovery_step |-> 80] }

\* The values random.random() is drawn from, in thousandths of [0, 1).
Draws == {0, 450, 950}

\* The random module.  Nothing in the repository seeds it: the generator
\* then starts from the entropy of the system and any value can be drawn
\* (seed 0).  After random.seed(s) the k-th value drawn in the process is
\* the k-th of the stream of s, whichever coroutine draws it.
Unseeded == [seed |-> 0, pos |-> 0]
Seeds == {1, 2}
RandomStream(seed) ==
    IF seed = 1 THEN <<451, 950, 0, 951, 450, 1>>
    ELSE <<950, 1, 451, 0, 951, 450>>

\* The k-th value the generator gives from now on.
Draw(k) ==
    LET stream == RandomStream(rng.seed)
    IN stream[((rng.pos + k - 1) % Len(stream)) + 1]

\* random.random() as the k-th call from now on.
Random(k) == IF rng.seed = 0 THEN Draws ELSE {Draw(k)}

\* The index random.choice picks in a list, as the k-th call from now on;
\* the list takes it modulo its length.
RandomIndex(k) == IF rng.seed = 0 THEN 1..2 ELSE {Draw(k) + 1}

\* The generator after k calls.
Advance(k) ==
    IF rng.seed = 0 THEN rng
    ELSE [rng EXCEPT !.pos = (@ + k) % Len(RandomStream(rng.seed))]

\* list(PERSONAS.keys()): the entries of the table in its order.
RECURSIVE TableOrder(_)
TableOrder(pool) ==
    IF pool = {} THEN <<>>
    ELSE LET x == CHOOSE y \in pool : TRUE
         IN <<x>> \o TableOrder(pool \ {x})

\* random.choice(list(PERSONAS.keys())), line 97, as the next call.
RandomPersona(pool) ==
    IF rng.seed = 0 THEN pool
    ELSE {TableOrder(pool)[(Draw(1) % Cardinality(pool)) + 1]}

parse_role(characters, persona_name) == Append(characters, persona_name)

\* idx_map = {v: k for k, v in roles.items()} (conversation.py, line 136):
\* the index of a name, the last one when the name has several; the indices
\* of the code start at 0.
IdxMap(roles) ==
    [n \in Range(roles) |->
        (CHOOSE k \in DOMAIN roles :
            /\ roles[k] = n
            /\ \A j \in DOMAIN roles : roles[j] = n => j <= k) - 1]

\* re.sub(r"\[.*?\]", "", text)
strip_tags(text) == SelectSeq(text, LAMBDA tok : ~IsTag(tok))

\* The roles of a message: "assistant" and f"user_{idx:02d}", the index in
\* two digits.
AssistantRole == [kind |-> "assistant", nn |-> <<>>]
UserRole(idx) == [kind |-> "user_", nn |-> <<idx \div 10, idx % 10>>]

\* A context in which every turn is rendered as a turn of somebody else.
HistoryAllOthers(hist, speaker, idx_map) ==
    [k \in DOMAIN hist |->
        [role |-> UserRole(idx_map[hist[k].name]), content |-> strip_tags(hist[k].utterance)]]

\* utils.py, lines 21-32.
history_to_msgs(hist, speaker, idx_map) ==
    [k \in DOMAIN hist |->
        IF hist[k].name # speaker
        THEN [role |-> UserRole(idx_map[hist[k].name]),
              content |-> strip_tags(hist[k].utterance)]
        ELSE [role |-> AssistantRole, content |-> hist[k].utterance]]

\* The context built for the turn in progress of a task (lines 135-136, 242).
hist_msgs(tsk) ==
    history_to_msgs(tsk.histories, tsk.speaker,
                    IdxMap(parse_role(GetKey(tsk.data, "character_list"), tsk.params.name)))

\* A selection that treats turn 0 as any other turn.
SelectSpeakerAnyTurn(t, roles, characters, p_name, p_prob, histories, r1, r2, c) ==
    LET others == SelectSeq(roles, LAMBDA n : n # p_name)
        choice == IF others # <<>> THEN others[((c - 1) % Len(others)) + 1] ELSE p_name
    IN IF r1 < p_prob * (Len(characters) + 1) THEN p_name
       ELSE IF Len(histories) > 0
            THEN IF Last(histories).next_speaker = "myself" THEN Last(histories).name
                 ELSE IF others # <<>>
                      THEN IF r2 < 900 THEN choice ELSE Last(histories).name
                      ELSE p_name
            ELSE choice

\* Lines 164-226 of generate_conversation: r1, r2 are the values of the two
\* random.random() calls, c the index random.choice(others) picks.
SelectSpeaker(t, roles, characters, p_name, p_prob, histories, r1, r2, c) ==
    LET others == SelectSeq(roles, LAMBDA n : n # p_name)
        choice == IF others # <<>> THEN others[((c - 1) % Len(others)) + 1] ELSE p_name
    IN IF t = 0 THEN roles[1]
       ELSE IF r1 < p_prob * (Len(characters) + 1) THEN p_name
       ELSE IF Len(histories) > 0
            THEN IF Last(histories).next_speaker = "myself" THEN Last(histories).name
                 ELSE IF others # <<>>
                      THEN IF r2 < 900 THEN choice ELSE Last(histories).name
                      ELSE p_name
            ELSE choice

\* An update without the clamps max(base_prob, .) and min(max_prob, .).
UpdateProbUnclamped(params, p_prob, speaker) ==
    IF speaker = params.name
    THEN (p_prob * params.decay) \div 100
    ELSE p_prob + params.recovery_step

\* An update that decays after a character turn and recovers after a persona
\* turn.
UpdateProbSwapped(params, p_prob, speaker) ==
    IF speaker # params.name
    THEN Max(params.base_prob, (p_prob * params.decay) \div 100)
    ELSE Min(params.max_prob, p_prob + params.recovery_step)

\* Lines 246-249.
UpdateProb(params, p_prob, speaker) ==
    IF speaker = params.name
    THEN Max(params.base_prob, (p_prob * params.decay) \div 100)
    ELSE Min(params.max_prob, p_prob + params.recovery_step)

(***************************************************************************)
(* One scenario task: limited_task(d) and generate_conversation.           *)
(* A task runs without interruption from one await to the next.            *)
(***************************************************************************)
NoParams == [name |-> None, base_prob |-> 0, max_prob |-> 0, decay |-> 0, recovery_step |-> 0]

NewTask(d) ==
    [data |-> d, hash |-> get_scenario_hash(d), pc |-> "queued", t |-> 0,
     params |-> NoParams, p_prob |-> 0, speaker |-> None, histories |-> <<>>,
     writes |-> <<>>, startedPending |-> FALSE, personaError |-> FALSE]

\* No validation at all.
ValidAlways(data) == TRUE

\* Lines 70-89: the input validation.
Valid(data) ==
    /\ HasKey(data, "scenario")
    /\ HasKey(data, "character_list")
    /\ Len(GetKey(data, "character_list")) > 0

\* The texts a resolved future of the batcher can carry: "" or a model output.
VllmResults == { <<>>, <<"[cammy]", "hi", "[next:myself]">> }

\* The tasks inside generate_conversation: they hold a slot of the semaphore
\* of limited_task (lines 184-191 of the driver).
InFlight ==
    Cardinality({i \in DOMAIN tasks : tasks[i].pc \in {"wait_gpt", "await_persona", "await_vllm"}})

\* A semaphore that lets every task in.
SlotFreeAlways == TRUE

\* async with semaphore: a slot of --max_concurrency is free.
SlotFree == InFlight < max_concurrency

\* The calls of llm.ainvoke that have not returned: each holds a slot of
\* gpt_semaphore (persona.py, lines 112-113).
OutstandingGpt == Cardinality({i \in DOMAIN tasks : tasks[i].pc = "await_persona"})

\* A semaphore that lets every persona call in.
GptSlotFreeAlways(released) == TRUE

\* async with semaphore: a slot of --gpt_concurrency is free.  released is
\* the number of outstanding calls that return in this very step: their
\* slot is given back on leaving the with block, before the next turn.
GptSlotFree(released) == OutstandingGpt - released < gpt_concurrency

\* str(uuid.uuid4()), line 317: an id that was never used.  Every id that was
\* stored is the name of a file, so the ids in use are counted by files.
uuid4 == Cardinality(files) + 1

\* The frame of a coroutine that has ended: its locals are gone.  writes,
\* startedPending and personaError record what the attempt did, until the
\* driver has consumed the tasks.
Ended(tsk, pc) ==
    [tsk EXCEPT !.pc = pc, !.t = 0, !.params = NoParams, !.p_prob = 0,
                !.speaker = None, !.histories = <<>>]

\* except Exception (lines 332-339): mark_failed, then re-raise.  When the
\* ledger refuses the write, the sqlite3 error of mark_failed leaves the
\* coroutine instead; writes records it as "write_error".
Fail(i, tsk, tbl, error, written) ==
    /\ \/ /\ table' = mark_failed(tbl, tsk.hash, error)
          /\ tasks' = [tasks EXCEPT ![i] =
                 [Ended(tsk, "raised") EXCEPT !.writes = written \o <<"failed">>]]
       \/ /\ ledger_fails
          /\ table' = tbl
          /\ tasks' = [tasks EXCEPT ![i] =
                 [Ended(tsk, "raised") EXCEPT !.writes = written \o <<"write_error">>]]
    /\ UNCHANGED <<files, rng>>

\* Lines 305-330: after the turn loop.
Finish(i, tsk) ==
    IF tsk.histories = <<>>
    THEN Fail(i, tsk, table, "Failed to generate any conversation turns", <<>>)
    ELSE LET id == uuid4
             result == [kind |-> "result", id |-> id]
             done == mark_completed(table, tsk.hash, result)
         IN \/ \* _save_individual_conversation writes the file
               /\ table' = done
               /\ files' = files \cup {id}
               /\ tasks' = [tasks EXCEPT ![i] =
                      [Ended(tsk, "returned") EXCEPT !.writes = <<"completed">>]]
               /\ UNCHANGED rng
            \/ \* _save_individual_conversation raises (OSError)
               Fail(i, tsk, done, "save", <<"completed">>)
            \/ \* mark_completed raises (sqlite3.Error)
               /\ ledger_fails
               /\ Fail(i, tsk, table, "ledger", <<"write_error">>)

\* The number of calls of the random module in iteration t: the draws of
\* the speaker selection (lines 176, 202-223) and, on a persona turn, the
\* random.choice(how_to_play) of persona.py, line 77.
DrawsUsed(t, roles, p_name, p_prob, characters, histories, r1, r2, speaker) ==
    LET others == SelectSeq(roles, LAMBDA n : n # p_name)
        selection ==
            IF t = 0 THEN 0
            ELSE IF r1 < p_prob * (Len(characters) + 1) THEN 1
            ELSE IF Len(histories) > 0
                 THEN IF Last(histories).next_speaker = "myself" THEN 1
                      ELSE IF others # <<>>
                           THEN IF r2 < 900 THEN 3 ELSE 2
                           ELSE 1
                 ELSE IF others # <<>> THEN 2 ELSE 1
    IN selection + IF speaker = p_name THEN 1 ELSE 0

\* Lines 159-266: the loop from the top of iteration t to its await.  A task
\* that starts has made one draw before, the random.choice of line 97.
Proceed(i, tsk, t) ==
    IF t < n_turns
    THEN /\ LET before == IF tasks[i].pc = "queued" THEN 1 ELSE 0
                characters == GetKey(tsk.data, "character_list")
                roles == parse_role(characters, tsk.params.name)
            IN \E r1 \in Random(before + 1), r2 \in Random(before + 2) :
                 \E c \in RandomIndex(before + IF tsk.histories = <<>> THEN 2 ELSE 3) :
                    LET speaker == SelectSpeaker(t, roles, characters, tsk.params.name,
                                                 tsk.p_prob, tsk.histories, r1, r2, c)
                        used == DrawsUsed(t, roles, tsk.params.name, tsk.p_prob,
                                          characters, tsk.histories, r1, r2, speaker)
                    IN /\ tasks' = [tasks EXCEPT ![i] =
                             [tsk EXCEPT !.t = t, !.speaker = speaker,
                                         !.p_prob = UpdateProb(tsk.params, tsk.p_prob, speaker),
                                         !.pc = IF speaker # tsk.params.name THEN "await_vllm"
                                                ELSE IF GptSlotFree(IF tasks[i].pc = "await_persona"
                                                                    THEN 1 ELSE 0)
                                                THEN "await_persona"
                                                ELSE "wait_gpt"]]
                       /\ rng' = Advance(before + used)
         /\ UNCHANGED <<table, files>>
    ELSE Finish(i, tsk)

\* The task gets a slot of the semaphore and runs to its first await.
TaskStart(i) ==
    /\ driver.pc = "running"
    /\ tasks[i].pc = "queued"
    /\ SlotFree
    /\ LET tsk == [tasks[i] EXCEPT !.startedPending = (StatusOf(table, tasks[i].hash) = "pending")]
       IN IF ~Valid(tsk.data)
          THEN Fail(i, tsk, table, "Data missing required field", <<>>)
          ELSE \E params \in RandomPersona(persona_pool) :
                  Proceed(i, [tsk EXCEPT !.params = params, !.p_prob = params.base_prob], 0)
    /\ UNCHANGED <<source, driver, max_concurrency, n_turns,
                 persona_pool, llm_texts, gpt_concurrency, ledger_fails>>
    /\ UNCHANGED batchVars

\* A persona call that waited for a slot of gpt_semaphore gets it
\* (persona.py, line 112).
GptAcquire(i) ==
    /\ tasks[i].pc = "wait_gpt"
    /\ GptSlotFree(0)
    /\ tasks' = [tasks EXCEPT ![i].pc = "await_persona"]
    /\ UNCHANGED <<source, table, files, driver, max_concurrency, n_turns,
                 persona_pool, llm_texts, gpt_concurrency, ledger_fails, rng>>
    /\ UNCHANGED batchVars

\* persona_generator.generate returns a text or raises (lines 254-262).
PersonaReturns(i) ==
    /\ tasks[i].pc = "await_persona"
    /\ \/ LET tsk == tasks[i]
              entry == [index |-> tsk.t, name |-> tsk.speaker, utterance |-> <<"hi">>,
                        emotion |-> None, speaker |-> None, next_speaker |-> None]
          IN Proceed(i, [tsk EXCEPT !.histories = Append(@, entry)], tsk.t + 1)
       \/ \* except Exception: return {}
          /\ tasks' = [tasks EXCEPT ![i] =
                 [Ended(tasks[i], "returned") EXCEPT !.personaError = TRUE]]
          /\ UNCHANGED <<table, files, rng>>
    /\ UNCHANGED <<source, driver, max_concurrency, n_turns,
                 persona_pool, llm_texts, gpt_concurrency, ledger_fails>>
    /\ UNCHANGED batchVars

\* A task that records every character turn with the index 0.
FutureResolvedIndexZero(i) ==
    /\ tasks[i].pc = "await_vllm"
    /\ \E text \in llm_texts :
          LET tsk == tasks[i]
              parsed == parse_utterance(text)
              entry == [index |-> 0, name |-> tsk.speaker, utterance |-> text,
                        emotion |-> parsed.emotion, speaker |-> parsed.speaker,
                        next_speaker |-> parsed.next_speaker]
          IN IF text = <<>>
             THEN Proceed(i, tsk, tsk.t + 1)
             ELSE Proceed(i, [tsk EXCEPT !.histories = Append(@, entry)], tsk.t + 1)
    /\ UNCHANGED <<source, driver, max_concurrency, n_turns,
                 persona_pool, llm_texts, gpt_concurrency, ledger_fails>>
    /\ UNCHANGED batchVars

\* A task that takes the empty result of a turn as the end of the scenario.
FutureResolvedSkipFatal(i) ==
    /\ tasks[i].pc = "await_vllm"
    /\ \E text \in llm_texts :
          LET tsk == tasks[i]
              parsed == parse_utterance(text)
              entry == [index |-> tsk.t, name |-> tsk.speaker, utterance |-> text,
                        emotion |-> parsed.emotion, speaker |-> parsed.speaker,
                        next_speaker |-> parsed.next_speaker]
          IN IF text = <<>>
             THEN Fail(i, tsk, table, "Failed to generate any conversation turns", <<>>)
             ELSE Proceed(i, [tsk EXCEPT !.histories = Append(@, entry)], tsk.t + 1)
    /\ UNCHANGED <<source, driver, max_concurrency, n_turns,
                 persona_pool, llm_texts, gpt_concurrency, ledger_fails>>
    /\ UNCHANGED batchVars

\* A task that generates the same turn again after an empty result.
FutureResolvedRetry(i) ==
    /\ tasks[i].pc = "await_vllm"
    /\ \E text \in llm_texts :
          LET tsk == tasks[i]
              parsed == parse_utterance(text)
              entry == [index |-> tsk.t, name |-> tsk.speaker, utterance |-> text,
                        emotion |-> parsed.emotion, speaker |-> parsed.speaker,
                        next_speaker |-> parsed.next_speaker]
          IN IF text = <<>>
             THEN Proceed(i, tsk, tsk.t)
             ELSE Proceed(i, [tsk EXCEPT !.histories = Append(@, entry)], tsk.t + 1)
    /\ UNCHANGED <<source, driver, max_concurrency, n_turns,
                 persona_pool, llm_texts, gpt_concurrency, ledger_fails>>
    /\ UNCHANGED batchVars

\* A task that takes p back to base_prob when a turn is skipped.
FutureResolvedSkipResets(i) ==
    /\ tasks[i].pc = "await_vllm"
    /\ \E text \in llm_texts :
          LET tsk == tasks[i]
              parsed == parse_utterance(text)
              entry == [index |-> tsk.t, name |-> tsk.speaker, utterance |-> text,
                        emotion |-> parsed.emotion, speaker |-> parsed.speaker,
                        next_speaker |-> parsed.next_speaker]
          IN IF text = <<>>
             THEN Proceed(i, [tsk EXCEPT !.p_prob = tsk.params.base_prob], tsk.t + 1)
             ELSE Proceed(i, [tsk EXCEPT !.histories = Append(@, entry)], tsk.t + 1)
    /\ UNCHANGED <<source, driver, max_concurrency, n_turns,
                 persona_pool, llm_texts, gpt_concurrency, ledger_fails>>
    /\ UNCHANGED batchVars

\* The future of batcher.put is resolved (lines 265-294).
FutureResolved(i) ==
    /\ tasks[i].pc = "await_vllm"
    /\ \E text \in llm_texts :
          LET tsk == tasks[i]
              parsed == parse_utterance(text)
              entry == [index |-> tsk.t, name |-> tsk.speaker, utterance |-> text,
                        emotion |-> parsed.emotion, speaker |-> parsed.speaker,
                        next_speaker |-> parsed.next_speaker]
          IN IF text = <<>>
             THEN Proceed(i, tsk, tsk.t + 1)
             ELSE Proceed(i, [tsk EXCEPT !.histories = Append(@, entry)], tsk.t + 1)
    /\ UNCHANGED <<source, driver, max_concurrency, n_turns,
                 persona_pool, llm_texts, gpt_concurrency, ledger_fails>>
    /\ UNCHANGED batchVars

(***************************************************************************)
(* The driver: main() of scripts/generation/conversation.py.               *)
(***************************************************************************)
RECURSIVE SeqsUpTo(_, _)
SeqsUpTo(S, n) ==
    IF n = 0 THEN {<<>>}
    ELSE LET shorter == SeqsUpTo(S, n - 1)
         IN shorter \cup {Append(q, x) : q \in shorter, x \in S}

\* The datasets load_dataset can return (line 133).
Datasets == SeqsUpTo(source, MaxDataset) \ {<<>>}

\* Lines 162-194: with no target main returns, else it creates the tasks.
\* ignored records how many INSERTs of the run met an existing row.
Launch(targets, mode, ignored) ==
    IF Len(targets) = 0
    THEN /\ driver' = [pc |-> "idle", mode |-> "none", runs |-> driver.runs + 1,
                       ignored |-> ignored]
         /\ tasks' = <<>>
    ELSE /\ driver' = [pc |-> "running", mode |-> mode, runs |-> driver.runs,
                       ignored |-> ignored]
         /\ tasks' = [i \in DOMAIN targets |-> NewTask(targets[i])]

\* Normal mode, lines 155-160.
MainNormal(ds) ==
    /\ driver.pc = "idle"
    /\ driver.runs < MaxRuns
    /\ table' = insert_pending_scenarios(table, ds)
    /\ Launch(get_pending_scenarios(ds, table'), "normal",
              Cardinality({k \in DOMAIN ds : HasRow(table, get_scenario_hash(ds[k]))}))
    /\ UNCHANGED <<source, files, max_concurrency, n_turns,
                 persona_pool, llm_texts, gpt_concurrency, ledger_fails, rng>>
    /\ UNCHANGED batchVars

\* Retry mode, lines 137-154.
MainRetry(ds) ==
    /\ driver.pc = "idle"
    /\ driver.runs < MaxRuns
    /\ LET failed_scenarios == get_failed_scenarios(ds, table)
       IN IF Len(failed_scenarios) = 0
          THEN /\ driver' = [pc |-> "idle", mode |-> "none", runs |-> driver.runs + 1,
                             ignored |-> 0]
               /\ tasks' = <<>>
               /\ UNCHANGED table
          ELSE /\ table' = reset_failed_to_pending(table)
               /\ Launch(failed_scenarios, "retry", 0)
    /\ UNCHANGED <<source, files, max_concurrency, n_turns,
                 persona_pool, llm_texts, gpt_concurrency, ledger_fails, rng>>
    /\ UNCHANGED batchVars

\* The as_completed loop has consumed every task (lines 196-229).
MainFinish ==
    /\ driver.pc = "running"
    /\ \A i \in DOMAIN tasks : tasks[i].pc \in {"returned", "raised"}
    /\ driver' = [pc |-> "idle", mode |-> "none", runs |-> driver.runs + 1, ignored |-> 0]
    /\ tasks' = <<>>
    /\ UNCHANGED <<source, table, files, max_concurrency, n_turns,
                 persona_pool, llm_texts, gpt_concurrency, ledger_fails, rng>>
    /\ UNCHANGED batchVars

(***************************************************************************)
(* The micro-batcher: VLLMBatcher of batcher.py.  A future is              *)
(* [prompt, state, result]; a request in the queue is the index of its     *)
(* future in futs.  A text is a sequence of tokens; " " is white space.    *)
(***************************************************************************)
MaxRequests == 3
MaxBatchBound == 2
MaxLatencyBound == 1

Prompts == {"p1", "p2"}
\* The completions llm.generate can return for a prompt.
OutTexts == { <<"hi">>, <<" ", "yo", " ">>, <<" ">> }
EmptyText == <<>>

\* str.strip()
RECURSIVE LStrip(_)
LStrip(text) ==
    IF text # <<>> /\ Head(text) = " " THEN LStrip(Tail(text)) ELSE text
RECURSIVE RStrip(_)
RStrip(text) ==
    IF text # <<>> /\ Last(text) = " " THEN RStrip(SubSeq(text, 1, Len(text) - 1)) ELSE text
Strip(text) == RStrip(LStrip(text))

RECURSIVE SeqsOfLen(_, _)
SeqsOfLen(S, n) ==
    IF n = 0 THEN {<<>>}
    ELSE {Append(q, x) : q \in SeqsOfLen(S, n - 1), x \in S}

\* fut.set_result(value) unless the future is cancelled; no future is ever
\* cancelled, since no caller cancels a wait.
SetResult(fs, f, value) == [fs EXCEPT ![f] = [@ EXCEPT !.state = "done", !.result = value]]

\* Lines 61-64: for fut, out in zip(futures, outs): fut.set_result(out...strip())
RECURSIVE ResolveReversed(_, _, _)
ResolveReversed(fs, futures, outs) ==
    IF futures = <<>> \/ outs = <<>> THEN fs
    ELSE ResolveReversed(SetResult(fs, Head(futures), Strip(Last(outs))),
                         Tail(futures), SubSeq(outs, 1, Len(outs) - 1))

RECURSIVE ResolveWithOutputs(_, _, _)
ResolveWithOutputs(fs, futures, outs) ==
    IF futures = <<>> \/ outs = <<>> THEN fs
    ELSE ResolveWithOutputs(SetResult(fs, Head(futures), Strip(Head(outs))),
                            Tail(futures), Tail(outs))

\* An except branch that resolves only the first future of the batch.
ResolveFirstWithEmpty(fs, futures) ==
    IF futures = <<>> THEN fs ELSE SetResult(fs, Head(futures), EmptyText)

\* Lines 65-70: for fut in futures: fut.set_result("")
RECURSIVE ResolveWithEmpty(_, _)
ResolveWithEmpty(fs, futures) ==
    IF futures = <<>> THEN fs
    ELSE ResolveWithEmpty(SetResult(fs, Head(futures), EmptyText), Tail(futures))

\* put(): lines 28-32.
Put(prompt) ==
    /\ Len(futs) < MaxRequests
    /\ futs' = Append(futs, [prompt |-> prompt, state |-> "pending", result |-> EmptyText])
    /\ queue' = Append(queue, Len(futs) + 1)
    /\ lateArrival' = (lateArrival \/ runner.pc # "get" \/ calls # <<>>)
    /\ UNCHANGED <<runner, now, max_batch, max_latency, calls, cutShort>>
    /\ UNCHANGED ledgerVars

\* A latency window that is never over.
TimeoutIgnoresElapsed == max_latency

\* The time left of the latency window: line 44.
Timeout == max_latency - (now - runner.start)

\* A collect loop that has no size limit.
BatchOpenNoLimit(prompts, elapsed) == max_latency - elapsed > 0

\* The collect loop goes on: lines 43-46.
BatchOpen(prompts, elapsed) ==
    /\ Len(prompts) < max_batch
    /\ max_latency - elapsed > 0

\* req = await self.queue.get(), lines 38-42, and the first test of the loop.
RunnerGet ==
    /\ runner.pc = "get"
    /\ queue # <<>>
    /\ LET f == Head(queue)
           prompts == <<futs[f].prompt>>
       IN /\ runner' = [pc |-> IF BatchOpen(prompts, 0) THEN "collect" ELSE "generate",
                        prompts |-> prompts, futures |-> <<f>>, start |-> now]
          /\ cutShort' = (cutShort \/ (Len(prompts) < max_batch /\ ~BatchOpen(prompts, 0)
                                         /\ Tail(queue) # <<>>))
    /\ queue' = Tail(queue)
    /\ UNCHANGED <<futs, now, max_batch, max_latency, calls, lateArrival>>
    /\ UNCHANGED ledgerVars

\* A collected request is put before the ones collected earlier.
CollectFirst(r, f) ==
    [r EXCEPT !.prompts = <<futs[f].prompt>> \o @, !.futures = Append(@, f)]

\* Lines 49-50: prompts.append(req.prompt); futures.append(req.future)
Collect(r, f) ==
    [r EXCEPT !.prompts = Append(@, futs[f].prompt), !.futures = Append(@, f)]

\* wait_for(self.queue.get(), timeout) returns a request: lines 47-50.
RunnerTake ==
    /\ runner.pc = "collect"
    /\ Timeout > 0
    /\ queue # <<>>
    /\ LET r == Collect(runner, Head(queue))
       IN runner' = [r EXCEPT !.pc = IF BatchOpen(r.prompts, now - runner.start)
                                     THEN "collect" ELSE "generate"]
    /\ queue' = Tail(queue)
    /\ UNCHANGED <<futs, now, max_batch, max_latency, calls, lateArrival, cutShort>>
    /\ UNCHANGED ledgerVars

\* The latency window is over: the break of line 46 or the TimeoutError of
\* line 51.
RunnerTimeout ==
    /\ runner.pc = "collect"
    /\ Timeout <= 0
    /\ runner' = [runner EXCEPT !.pc = "generate"]
    /\ cutShort' = (cutShort \/ queue # <<>>)
    /\ UNCHANGED <<queue, futs, now, max_batch, max_latency, calls, lateArrival>>
    /\ UNCHANGED ledgerVars

\* The bulk call returns or raises: lines 54-70.
RunnerGenerate ==
    /\ runner.pc = "generate"
    /\ \/ \E outs \in SeqsOfLen(OutTexts, Len(runner.prompts)) :
             /\ futs' = ResolveWithOutputs(futs, runner.futures, outs)
             /\ calls' = Append(calls, [prompts |-> runner.prompts, futures |-> runner.futures,
                                        outcome |-> "returned", outs |-> outs])
       \/ /\ futs' = ResolveWithEmpty(futs, runner.futures)
          /\ calls' = Append(calls, [prompts |-> runner.prompts, futures |-> runner.futures,
                                     outcome |-> "raised", outs |-> <<>>])
    /\ runner' = [pc |-> "get", prompts |-> <<>>, futures |-> <<>>, start |-> 0]
    /\ UNCHANGED <<queue, now, max_batch, max_latency, lateArrival, cutShort>>
    /\ UNCHANGED ledgerVars

\* The bulk call returns fewer outputs than prompts: zip (line 62) stops at
\* the shorter list, and the futures beyond it are left as they are.
RunnerGenerateShort ==
    /\ runner.pc = "generate"
    /\ \E n \in 0..(Len(runner.prompts) - 1) :
          \E outs \in SeqsOfLen(OutTexts, n) :
             /\ futs' = ResolveWithOutputs(futs, runner.futures, outs)
             /\ calls' = Append(calls, [prompts |-> runner.prompts, futures |-> runner.futures,
                                        outcome |-> "returned", outs |-> outs])
    /\ runner' = [pc |-> "get", prompts |-> <<>>, futures |-> <<>>, start |-> 0]
    /\ UNCHANGED <<queue, now, max_batch, max_latency, lateArrival, cutShort>>
    /\ UNCHANGED ledgerVars

\* The bulk call returns, and reading the text of the output n + 1 raises
\* (out.outputs[0], line 64) after the first n futures were given their
\* result.  The except branch (lines 65-70) then calls set_result("") on the
\* futures of the batch from the first one on: on a future that is done
\* that call raises InvalidStateError, which nothing catches, and the
\* runner task ends.
RunnerDistributeRaises ==
    /\ runner.pc = "generate"
    /\ \E outs \in SeqsOfLen(OutTexts, Len(runner.prompts)) :
          \E n \in 0..(Len(runner.prompts) - 1) :
             /\ calls' = Append(calls, [prompts |-> runner.prompts, futures |-> runner.futures,
                                        outcome |-> "distribute_error", outs |-> outs])
             /\ IF n = 0
                THEN /\ futs' = ResolveWithEmpty(futs, runner.futures)
                     /\ runner' = [pc |-> "get", prompts |-> <<>>, futures |-> <<>>, start |-> 0]
                ELSE /\ futs' = ResolveWithOutputs(futs, runner.futures, SubSeq(outs, 1, n))
                     /\ runner' = [runner EXCEPT !.pc = "ended"]
    /\ UNCHANGED <<queue, now, max_batch, max_latency, lateArrival, cutShort>>
    /\ UNCHANGED ledgerVars

\* Time passes.  Only the time since the first request of the batch being
\* collected is read, and only until the latency window is over.
Tick ==
    /\ runner.pc = "collect"
    /\ Timeout > 0
    /\ now' = now + 1
    /\ UNCHANGED <<queue, runner, futs, max_batch, max_latency, calls, lateArrival, cutShort>>
    /\ UNCHANGED ledgerVars

LedgerStart ==
    /\ table = {}
    /\ files = {}
    /\ driver = [pc |-> "idle", mode |-> "none", runs |-> 0, ignored |-> 0]
    /\ tasks = <<>>

BatchIdle ==
    /\ queue = <<>>
    /\ runner = [pc |-> "get", prompts |-> <<>>, futures |-> <<>>, start |-> 0]
    /\ futs = <<>>
    /\ now = 0
    /\ calls = <<>>
    /\ lateArrival = FALSE
    /\ cutShort = FALSE

\* The command lines the runs are started with: one task in flight at a
\* time and conversations of two turns, or two tasks in flight and
\* conversations of one turn; --gpt_concurrency is never below the number of
\* tasks in flight, so no persona call waits for a slot.
RunConfigs ==
    { [max_concurrency |-> 1, turns |-> 2, gpt_concurrency |-> 2],
      [max_concurrency |-> 2, turns |-> 1, gpt_concurrency |-> 2] }

\* VLLMBatcher.__init__: the default configuration.
DefaultMaxBatch == 32
DefaultMaxLatencyMs == 25

Init ==
    /\ source = {DataA, DataB}
    /\ LedgerStart
    /\ \E cfg \in RunConfigs : /\ max_concurrency = cfg.max_concurrency
                             /\ n_turns = cfg.turns
                             /\ gpt_concurrency = cfg.gpt_concurrency
    /\ persona_pool = Personas
    /\ llm_texts = VllmResults
    /\ ledger_fails = FALSE
    /\ rng = Unseeded
    /\ BatchIdle
    /\ max_batch = DefaultMaxBatch
    /\ max_latency = DefaultMaxLatencyMs

Next ==
    \/ \E ds \in Datasets : MainNormal(ds)
    \/ \E ds \in Datasets : MainRetry(ds)
    \/ MainFinish
    \/ \E i \in DOMAIN tasks : TaskStart(i)
    \/ \E i \in DOMAIN tasks : PersonaReturns(i)
    \/ \E i \in DOMAIN tasks : FutureResolved(i)

Spec == Init /\ [][Next]_vars

\* The batcher alone, with the prompts the conversation tasks put.
InitBatch ==
    /\ source = {}
    /\ LedgerStart
    /\ max_concurrency = 1
    /\ n_turns = 1
    /\ persona_pool = {}
    /\ llm_texts = VllmResults
    /\ gpt_concurrency = 1
    /\ ledger_fails = FALSE
    /\ rng = Unseeded
    /\ BatchIdle
    /\ max_batch \in 1..MaxBatchBound
    /\ max_latency \in 0..MaxLatencyBound

NextBatch ==
    \/ \E prompt \in Prompts : Put(prompt)
    \/ RunnerGet
    \/ RunnerTake
    \/ RunnerTimeout
    \/ RunnerGenerate
    \/ Tick

SpecBatch == InitBatch /\ [][NextBatch]_vars

\* The batcher with a dialogue model that can return fewer outputs than it
\* was given prompts.  The event loop runs the runner task whenever it can
\* go on, and the clock advances.
NextShort ==
    \/ \E prompt \in Prompts : Put(prompt)
    \/ RunnerGet
    \/ RunnerTake
    \/ RunnerTimeout
    \/ RunnerGenerate
    \/ RunnerGenerateShort
    \/ Tick

RunnerStep ==
    \/ RunnerGet
    \/ RunnerTake
    \/ RunnerTimeout
    \/ RunnerGenerate
    \/ RunnerGenerateShort
    \/ Tick

SpecShort == InitBatch /\ [][NextShort]_vars /\ WF_vars(RunnerStep)

\* The batcher with a dialogue model whose outputs can be unreadable.
NextDist ==
    \/ \E prompt \in Prompts : Put(prompt)
    \/ RunnerGet
    \/ RunnerTake
    \/ RunnerTimeout
    \/ RunnerGenerate
    \/ RunnerDistributeRaises
    \/ Tick

SpecDist == InitBatch /\ [][NextDist]_vars

(***************************************************************************)
(* One conversation, turn by turn: main has inserted the one scenario of   *)
(* the dataset and created its task (line 194).                            *)
(***************************************************************************)
MaxTurns == 3

\* Persona tables: base_prob <= max_prob, 0 < decay < 1, recovery_step > 0,
\* as in every entry of personas.py and every draw of lines 109-131.
ExampleParams ==
    [name |-> "spammer", base_prob |-> 100, max_prob |-> 500, decay |-> 40, recovery_step |-> 50]

ParamGrid ==
    { [name |-> "spammer", base_prob |-> b, max_prob |-> m, decay |-> d, recovery_step |-> r] :
        b \in {100, 300}, m \in {300, 450}, d \in {40, 80}, r \in {80, 250} }
    \cup {ExampleParams}

Launched(targets) ==
    /\ table = insert_pending_scenarios({}, targets)
    /\ files = {}
    /\ driver = [pc |-> "running", mode |-> "normal", runs |-> 0, ignored |-> 0]
    /\ tasks = [i \in DOMAIN targets |-> NewTask(targets[i])]

InitConv ==
    /\ source = {DataA, DataBad}
    /\ \E d \in source : Launched(<<d>>)
    /\ max_concurrency = 1
    /\ n_turns \in 1..MaxTurns
    /\ persona_pool = ParamGrid
    /\ llm_texts = VllmResults
    /\ gpt_concurrency = 1
    /\ ledger_fails = FALSE
    /\ rng = Unseeded
    /\ BatchIdle
    /\ max_batch = DefaultMaxBatch
    /\ max_latency = DefaultMaxLatencyMs

NextConv ==
    \/ \E i \in DOMAIN tasks : TaskStart(i)
    \/ \E i \in DOMAIN tasks : PersonaReturns(i)
    \/ \E i \in DOMAIN tasks : FutureResolved(i)
    \/ MainFinish

SpecConv == InitConv /\ [][NextConv]_vars

(***************************************************************************)
(* One run under load: main has inserted the dataset and created its       *)
(* tasks; one persona call at a time is allowed and the ledger file can    *)
(* refuse a write.                                                         *)
(***************************************************************************)
InitLoad ==
    /\ source = {DataA, DataB}
    /\ \E ds \in Datasets : Launched(ds)
    /\ max_concurrency \in {1, 2}
    /\ n_turns = 2
    /\ persona_pool = Personas
    /\ llm_texts = VllmResults
    /\ gpt_concurrency = 1
    /\ ledger_fails = TRUE
    /\ rng = Unseeded
    /\ BatchIdle
    /\ max_batch = DefaultMaxBatch
    /\ max_latency = DefaultMaxLatencyMs

NextLoad ==
    \/ \E i \in DOMAIN tasks : TaskStart(i)
    \/ \E i \in DOMAIN tasks : GptAcquire(i)
    \/ \E i \in DOMAIN tasks : PersonaReturns(i)
    \/ \E i \in DOMAIN tasks : FutureResolved(i)
    \/ MainFinish

SpecLoad == InitLoad /\ [][NextLoad]_vars

(***************************************************************************)
(* One run over a dataset of two records, which can hold one scenario      *)
(* under two key orders; one task at a time, conversations of one turn.    *)
(***************************************************************************)
InitHash ==
    /\ source = KeyOrders(DataNested) \cup {DataA}
    /\ \E d1 \in source, d2 \in source : Launched(<<d1, d2>>)
    /\ max_concurrency = 1
    /\ n_turns = 1
    /\ persona_pool = Personas
    /\ llm_texts = VllmResults
    /\ gpt_concurrency = 1
    /\ ledger_fails = FALSE
    /\ rng = Unseeded
    /\ BatchIdle
    /\ max_batch = DefaultMaxBatch
    /\ max_latency = DefaultMaxLatencyMs

NextHash ==
    \/ \E i \in DOMAIN tasks : TaskStart(i)
    \/ \E i \in DOMAIN tasks : FutureResolved(i)
    \/ MainFinish

SpecHash == InitHash /\ [][NextHash]_vars

(***************************************************************************)
(* One run of a process that has called random.seed(s): main has inserted  *)
(* the dataset and created its tasks, two of which can be in flight.       *)
(***************************************************************************)
InitSeed ==
    /\ source = {DataA, DataB}
    /\ \E ds \in Datasets : Launched(ds)
    /\ max_concurrency = 2
    /\ n_turns = 3
    /\ persona_pool = Personas
    /\ llm_texts = VllmResults
    /\ gpt_concurrency = 2
    /\ ledger_fails = FALSE
    /\ \E s \in Seeds : rng = [seed |-> s, pos |-> 0]
    /\ BatchIdle
    /\ max_batch = DefaultMaxBatch
    /\ max_latency = DefaultMaxLatencyMs

NextSeed ==
    \/ \E i \in DOMAIN tasks : TaskStart(i)
    \/ \E i \in DOMAIN tasks : PersonaReturns(i)
    \/ \E i \in DOMAIN tasks : FutureResolved(i)
    \/ MainFinish

SpecSeed == InitSeed /\ [][NextSeed]_vars

(***************************************************************************)
(* One conversation of two turns with a dialogue model that can return any *)
(* text of up to MaxTokens tokens.                                         *)
(***************************************************************************)
MaxTokens == 2

Tokens == EmotionTags \cup NextTags \cup OtherTags \cup Words
Texts == SeqsUpTo(Tokens, MaxTokens)

InitParse ==
    /\ source = {DataA}
    /\ Launched(<<DataA>>)
    /\ max_concurrency = 1
    /\ n_turns = 2
    /\ persona_pool = Personas
    /\ llm_texts = Texts
    /\ gpt_concurrency = 1
    /\ ledger_fails = FALSE
    /\ rng = Unseeded
    /\ BatchIdle
    /\ max_batch = DefaultMaxBatch
    /\ max_latency = DefaultMaxLatencyMs

NextParse ==
    \/ \E i \in DOMAIN tasks : TaskStart(i)
    \/ \E i \in DOMAIN tasks : PersonaReturns(i)
    \/ \E i \in DOMAIN tasks : FutureResolved(i)
    \/ MainFinish

SpecParse == InitParse /\ [][NextParse]_vars

(***************************************************************************)
(* Claims about the ledger, the driver and the scenario task (Spec).       *)
(***************************************************************************)
Finished(tsk) == tsk.pc \in {"returned", "raised"}
InSeq(x, q) == \E k \in DOMAIN q : q[k] = x

\* C1: when the persona collaborator call raises during a persona turn, the
\* scenario is aborted and mark_failed is performed for its hash: the attempt
\* writes the status failed and the row is not left pending.
C1_PersonaErrorMarksFailed ==
    \A i \in DOMAIN tasks :
        tasks[i].personaError =>
            /\ tasks[i].writes = <<"failed">>
            /\ StatusOf(table, tasks[i].hash) # "pending"

\* C2: every attempt on a row that is pending performs exactly one status
\* transition, pending->completed or pending->failed: never both, never none.
C2_ExactlyOneTransition ==
    \A i \in DOMAIN tasks :
        (Finished(tasks[i]) /\ tasks[i].startedPending) =>
            tasks[i].writes \in {<<"completed">>, <<"failed">>}

\* C3: once a row has the status completed, no later step of the same run or
\* of a later run changes its status or its stored result.
C3_CompletedNeverChanges ==
    [][\A r \in table : r.status = "completed" => r \in table']_vars

UniqueHashes(tbl) == \A r1 \in tbl, r2 \in tbl : r1.scenario_hash = r2.scenario_hash => r1 = r2
DistinctHashes(ds) == {get_scenario_hash(ds[k]) : k \in DOMAIN ds}

\* C4: the ledger holds at most one row per scenario hash after any number of
\* insert_pending_scenarios calls, and inserting a dataset a second time
\* does not change the row count; the rows a dataset adds are at most its
\* distinct scenarios.  main inserts between two runs only, so the datasets
\* are inserted into the ledger of every state in which no run is going on.
C4_IdempotentInsert ==
    /\ UniqueHashes(table)
    /\ driver.pc = "idle" => \A ds \in Datasets :
          LET once == insert_pending_scenarios(table, ds)
              twice == insert_pending_scenarios(once, ds)
          IN /\ UniqueHashes(once)
             /\ Cardinality(twice) = Cardinality(once)
             /\ Cardinality(once) <= Cardinality(table) + Cardinality(DistinctHashes(ds))

\* C4 witness: a run has called insert_pending_scenarios with a dataset of
\* which a scenario already had a row, and that row is failed.
C4_Witness ==
    /\ driver.ignored > 0
    /\ \E r \in table : r.status = "failed"

InsertStep == \E ds \in Datasets : MainNormal(ds)

\* C5: insert_pending_scenarios leaves every existing row as it is, whatever
\* its status, and every row it adds is a pending row without result for a
\* hash that had no row.
C5_InsertKeepsExistingRows ==
    [][InsertStep =>
         /\ \A r \in table : r \in table'
         /\ \A r \in table' \ table :
               /\ r.status = "pending"
               /\ r.result = NULL
               /\ ~HasRow(table, r.scenario_hash)]_vars

\* C5 witness: insert_pending_scenarios has met existing rows while the
\* ledger holds a completed row.
C5_Witness ==
    /\ driver.ignored > 0
    /\ \E r \in table : r.status = "completed"

ResetStep == \E ds \in Datasets : MainRetry(ds) /\ Len(get_failed_scenarios(ds, table)) > 0

\* C6: a scenario of a dataset whose row was marked failed is, after
\* reset_failed_to_pending, returned by get_pending_scenarios and not
\* returned by get_failed_scenarios.
C6_ResetCorrectness ==
    [][ResetStep =>
         \A ds \in Datasets : \A k \in DOMAIN ds :
             StatusOf(table, get_scenario_hash(ds[k])) = "failed" =>
                 /\ InSeq(ds[k], get_pending_scenarios(ds, table'))
                 /\ ~InSeq(ds[k], get_failed_scenarios(ds, table'))]_vars

\* C6 witness: a retry run has reset the failed rows and its tasks, one per
\* scenario that had failed, are not started yet.
C6_Witness ==
    /\ driver.pc = "running"
    /\ driver.mode = "retry"
    /\ tasks # <<>>
    /\ \A i \in DOMAIN tasks : tasks[i].pc = "queued" /\ StatusOf(table, tasks[i].hash) = "pending"

\* C7: a row leaves the status failed only through reset_failed_to_pending;
\* no scenario task and no normal-mode run moves it to pending or completed.
C7_FailedLeavesOnlyByReset ==
    [][\A r \in table :
          r.status = "failed" =>
              \/ StatusOf(table', r.scenario_hash) = "failed"
              \/ ResetStep]_vars

(***************************************************************************)
(* Claims about the micro-batcher (SpecBatch).                             *)
(***************************************************************************)
RECURSIVE FuturesOfCalls(_)
FuturesOfCalls(cs) ==
    IF cs = <<>> THEN <<>> ELSE Head(cs).futures \o FuturesOfCalls(Tail(cs))

\* C8: when the bulk call of a batch raises, every future of the batch is
\* resolved with the empty string; no future carries an exception.
C8_ErrorResolvesAllEmpty ==
    \A k \in DOMAIN calls :
        calls[k].outcome = "raised" =>
            \A j \in DOMAIN calls[k].futures :
                /\ futs[calls[k].futures[j]].state = "done"
                /\ futs[calls[k].futures[j]].result = EmptyText

\* C8 witness: the bulk call of a batch of two requests has raised.
C8_Witness ==
    \E k \in DOMAIN calls : calls[k].outcome = "raised" /\ Len(calls[k].futures) >= 2

\* C9: every submitted request is in exactly one batch, the batches are cut
\* from the requests in submission order, each batch is served by one bulk
\* call with the prompts of its requests in that order, and the i-th future
\* of a call that returned is resolved with the stripped i-th output.
C9_OneBatchInOrder ==
    /\ FuturesOfCalls(calls) \o runner.futures \o queue = [f \in 1..Len(futs) |-> f]
    /\ Len(runner.prompts) = Len(runner.futures)
    /\ \A j \in DOMAIN runner.futures : runner.prompts[j] = futs[runner.futures[j]].prompt
    /\ \A k \in DOMAIN calls :
          /\ calls[k].futures # <<>>
          /\ Len(calls[k].prompts) = Len(calls[k].futures)
          /\ \A j \in DOMAIN calls[k].futures :
                /\ calls[k].prompts[j] = futs[calls[k].futures[j]].prompt
                /\ calls[k].outcome = "returned" =>
                      /\ Len(calls[k].outs) = Len(calls[k].futures)
                      /\ futs[calls[k].futures[j]].state = "done"
                      /\ futs[calls[k].futures[j]].result = Strip(calls[k].outs[j])

\* C9 witness: a call with two different prompts has returned two different
\* outputs.
C9_Witness ==
    \E k \in DOMAIN calls :
        /\ calls[k].outcome = "returned"
        /\ Len(calls[k].futures) = 2
        /\ calls[k].prompts[1] # calls[k].prompts[2]
        /\ Strip(calls[k].outs[1]) # Strip(calls[k].outs[2])

Ceil(a, b) == (a + b - 1) \div b

\* Every request was enqueued before the runner took its first request, and
\* all of them are served.
BurstServed ==
    /\ ~lateArrival
    /\ futs # <<>>
    /\ queue = <<>>
    /\ runner.pc = "get"

\* C10: a burst of k > max_batch requests, all enqueued before the consumer
\* starts collecting, is served by exactly ceil(k / max_batch) bulk calls.
C10_BurstCeilCalls ==
    (BurstServed /\ Len(futs) > max_batch) =>
        Len(calls) = Ceil(Len(futs), max_batch)

\* C10 as amended: such a burst is served by at least ceil(k / max_batch) and
\* at most k bulk calls, and by exactly ceil(k / max_batch) when no batch was
\* closed by the latency cap while requests were still queued.
C10_BurstCeilCallsUnlessCut ==
    (BurstServed /\ Len(futs) > max_batch) =>
        /\ Len(calls) >= Ceil(Len(futs), max_batch)
        /\ Len(calls) <= Len(futs)
        /\ ~cutShort => Len(calls) = Ceil(Len(futs), max_batch)

\* C10 witness: a burst of three requests was served in two calls by a
\* batcher with max_batch = 2 whose latency window never cut a batch.
C10_Witness ==
    /\ BurstServed
    /\ ~cutShort
    /\ max_batch = 2
    /\ Len(futs) = 3
    /\ Len(calls) = 2

\* C11: a batcher with max_batch = 1 is a pass-through: the runner never
\* waits for the latency window, every bulk call carries the one prompt of
\* one request, the k-th call serves the k-th request and resolves its
\* future with the result of that call, and n served requests took n calls.
C11_PassThrough ==
    max_batch = 1 =>
        /\ runner.pc # "collect"
        /\ Len(runner.prompts) <= 1
        /\ \A k \in DOMAIN calls :
              /\ calls[k].futures = <<k>>
              /\ calls[k].prompts = <<futs[k].prompt>>
              /\ futs[k].state = "done"
              /\ futs[k].result = IF calls[k].outcome = "returned"
                                  THEN Strip(calls[k].outs[1]) ELSE EmptyText
        /\ (queue = <<>> /\ runner.pc = "get") => Len(calls) = Len(futs)

\* C11 witness: three requests were served by a batcher with max_batch = 1
\* and a latency window that is not zero.
C11_Witness ==
    /\ max_batch = 1
    /\ max_latency > 0
    /\ queue = <<>>
    /\ runner.pc = "get"
    /\ Len(futs) = 3
    /\ Len(calls) = 3

(***************************************************************************)
(* Claims about one conversation (SpecConv).                               *)
(***************************************************************************)
Awaiting(tsk) == tsk.pc \in {"await_persona", "await_vllm"}

ValidParams(params) ==
    /\ params.base_prob <= params.max_prob
    /\ 0 < params.decay /\ params.decay < 100
    /\ params.recovery_step > 0

\* C12: for persona parameters with base_prob <= max_prob, 0 < decay < 1 and
\* recovery_step > 0, the intervention probability of a conversation is
\* within [base_prob, max_prob] after initialisation and after the update of
\* every turn, whoever was selected and whether the turn was skipped.
C12_ProbabilityBound ==
    /\ \A params \in persona_pool :
          ValidParams(params) =>
              /\ params.base_prob <= params.max_prob
              /\ \A speaker \in {params.name, "A"} :
                    LET p == UpdateProb(params, params.base_prob, speaker)
                    IN params.base_prob <= p /\ p <= params.max_prob
    /\ \A i \in DOMAIN tasks :
          (Awaiting(tasks[i]) /\ ValidParams(tasks[i].params)) =>
              /\ tasks[i].params.base_prob <= tasks[i].p_prob
              /\ tasks[i].p_prob <= tasks[i].params.max_prob

\* C12 witness: at the third turn, after a persona turn was recorded, the
\* probability sits at max_prob, above base_prob.
C12_Witness ==
    \E i \in DOMAIN tasks :
        /\ Awaiting(tasks[i])
        /\ tasks[i].t = 2
        /\ \E k \in DOMAIN tasks[i].histories : tasks[i].histories[k].name = tasks[i].params.name
        /\ tasks[i].p_prob = tasks[i].params.max_prob
        /\ tasks[i].params.base_prob < tasks[i].params.max_prob

FirstCharacter(tsk) == GetKey(tsk.data, "character_list")[1]

\* C13: at turn index 0 the selected speaker is the first entry of the
\* scenario's character list and never the persona, whatever the random
\* number generator would return: the selection of turn 0 does not depend
\* on any draw.
C13_DeterministicOpening ==
    \A i \in DOMAIN tasks :
        /\ (Awaiting(tasks[i]) /\ tasks[i].t = 0) =>
              /\ tasks[i].speaker = FirstCharacter(tasks[i])
              /\ tasks[i].speaker # tasks[i].params.name
              /\ tasks[i].pc = "await_vllm"
              /\ \A r1 \in Draws, r2 \in Draws, c \in 1..2 :
                    LET characters == GetKey(tasks[i].data, "character_list")
                    IN SelectSpeaker(0, parse_role(characters, tasks[i].params.name), characters,
                                     tasks[i].params.name, tasks[i].p_prob, tasks[i].histories,
                                     r1, r2, c) = characters[1]
        /\ \A k \in DOMAIN tasks[i].histories :
              tasks[i].histories[k].index = 0 =>
                  /\ tasks[i].histories[k].name = FirstCharacter(tasks[i])
                  /\ tasks[i].histories[k].name # tasks[i].params.name

\* C13 witness: the opening turn of the first character is recorded and a
\* persona turn follows it.
C13_Witness ==
    \E i \in DOMAIN tasks :
        /\ Len(tasks[i].histories) >= 2
        /\ tasks[i].histories[1].index = 0
        /\ tasks[i].histories[1].name = "A"
        /\ tasks[i].histories[2].name = tasks[i].params.name

\* The error text stored in the row of hash h, None unless the row is failed.
ErrorOf(tbl, h) ==
    IF StatusOf(tbl, h) = "failed" THEN (CHOOSE r \in RowsOf(tbl, h) : TRUE).result.error ELSE None

NoTurnsError == "Failed to generate any conversation turns"

\* C14: an empty result on a character turn only skips that turn: whatever
\* the number and the position of such results, a conversation without
\* persona error (and whose transcript file is written) ends committed as
\* completed, never as failed.
C14_SkipNeverFails ==
    \A i \in DOMAIN tasks :
        (/\ Finished(tasks[i])
         /\ Valid(tasks[i].data)
         /\ ~tasks[i].personaError
         /\ ErrorOf(table, tasks[i].hash) # "save") =>
            /\ tasks[i].writes = <<"completed">>
            /\ StatusOf(table, tasks[i].hash) = "completed"

\* C14 as amended: an empty result on a character turn only skips that
\* turn, and a conversation without persona error ends committed as
\* completed as soon as one turn of it was recorded; it is committed as
\* failed ("Failed to generate any conversation turns") only when every
\* turn was skipped, or when the transcript file cannot be written.
C14_SkipFatalOnlyIfNothingRecorded ==
    [][\A i \in DOMAIN tasks :
          (/\ i \in DOMAIN tasks'
           /\ Awaiting(tasks[i])
           /\ tasks'[i] # tasks[i]
           /\ ~tasks'[i].personaError) =>
              \/ Awaiting(tasks'[i])
              \/ /\ tasks'[i].pc = "returned"
                 /\ tasks'[i].writes = <<"completed">>
                 /\ StatusOf(table', tasks[i].hash) = "completed"
              \/ /\ tasks'[i].pc = "raised"
                 /\ ErrorOf(table', tasks[i].hash) = "save"
              \/ /\ tasks'[i].pc = "raised"
                 /\ ErrorOf(table', tasks[i].hash) = NoTurnsError
                 /\ tasks[i].histories = <<>>
                 /\ tasks[i].pc = "await_vllm"]_vars

\* C14 witness: the last of three turns is awaited by a conversation of
\* which one turn was skipped and one was recorded.
C14_Witness ==
    \E i \in DOMAIN tasks :
        /\ n_turns = 3
        /\ tasks[i].pc = "await_vllm"
        /\ tasks[i].t = 2
        /\ Len(tasks[i].histories) = 1

\* Scenarios without character list and with an empty one.
DataNoChars == << <<"scenario", <<"s1">>>> >>
DataEmptyChars == << <<"scenario", <<"s1">>>>, <<"character_list", <<>>>> >>
Malformed == {DataBad, DataNoChars, DataEmptyChars}

StrictlyIncreasing(histories) ==
    \A k \in DOMAIN histories :
        k > 1 => histories[k - 1].index < histories[k].index

\* C20: in every conversation the recorded turns are in append order with
\* strictly increasing index values, and the first recorded turn has the
\* index 0.
C20_IndexFromZero ==
    \A i \in DOMAIN tasks :
        /\ StrictlyIncreasing(tasks[i].histories)
        /\ tasks[i].histories # <<>> => tasks[i].histories[1].index = 0

\* C20 as amended: the recorded turns are in append order with strictly
\* increasing index values, each the number of the loop iteration that
\* recorded it, so below the iteration in progress and below n_turns; the
\* k-th recorded turn has an index of at least k - 1, and exactly k - 1 (so 0
\* for the first) as long as no turn was skipped.
C20_IndexIncreasing ==
    \A i \in DOMAIN tasks :
        /\ StrictlyIncreasing(tasks[i].histories)
        /\ \A k \in DOMAIN tasks[i].histories :
              /\ tasks[i].histories[k].index >= k - 1
              /\ tasks[i].histories[k].index < tasks[i].t
              /\ tasks[i].histories[k].index < n_turns
              /\ Len(tasks[i].histories) = tasks[i].t => tasks[i].histories[k].index = k - 1

\* C20 witness: the opening turn was skipped and the first recorded turn of
\* the conversation has the index 1.
C20_Witness ==
    \E i \in DOMAIN tasks :
        /\ Awaiting(tasks[i])
        /\ tasks[i].t = 2
        /\ Len(tasks[i].histories) = 1
        /\ tasks[i].histories[1].index = 1

(***************************************************************************)
(* Claims about a run under load (SpecLoad, Spec).                         *)
(***************************************************************************)
WriteFailed(tsk) == \E k \in DOMAIN tsk.writes : tsk.writes[k] = "write_error"

\* C16: a ledger write failure propagates: once mark_completed or
\* mark_failed has raised in a task, the run does not carry on with the
\* remaining scenarios: no task that was waiting is started any more.
C16_WriteFailureStopsRun ==
    [][(\E i \in DOMAIN tasks : WriteFailed(tasks[i])) =>
          \A j \in DOMAIN tasks :
              (j \in DOMAIN tasks' /\ tasks[j].pc = "queued") => tasks'[j].pc = "queued"]_vars

\* C17: a scenario task that ends with an unrecoverable error has committed
\* a failed row for its hash as its last write, and it holds no in-flight
\* slot any more.
C17_FailureIsolation ==
    \A i \in DOMAIN tasks :
        (tasks[i].pc = "raised" \/ tasks[i].personaError) =>
            /\ tasks[i].writes # <<>>
            /\ Last(tasks[i].writes) = "failed"
            /\ InFlight <= Cardinality({j \in DOMAIN tasks : j # i /\ ~Finished(tasks[j])})

\* C18: at every moment at most max_concurrency scenario tasks are inside
\* generate_conversation, whatever the number of targets and the order in
\* which the tasks run.
C18_InFlightBound ==
    InFlight <= max_concurrency

\* C18 witness: max_concurrency tasks are in flight and another one waits
\* for a slot.
C18_Witness ==
    /\ InFlight = max_concurrency
    /\ \E i \in DOMAIN tasks : tasks[i].pc = "queued"

\* C19: at every moment at most gpt_concurrency calls to the persona
\* collaborator are outstanding over all conversations; a call that has
\* returned or raised holds no slot.
C19_PersonaCallBound ==
    /\ OutstandingGpt <= gpt_concurrency
    /\ \A i \in DOMAIN tasks :
          (Finished(tasks[i]) \/ tasks[i].pc \in {"queued", "await_vllm", "wait_gpt"}) =>
              OutstandingGpt <= Cardinality({j \in DOMAIN tasks : j # i})

\* C19 witness: gpt_concurrency persona calls are outstanding and the
\* persona call of another conversation waits for a slot.
C19_Witness ==
    /\ OutstandingGpt = gpt_concurrency
    /\ \E i \in DOMAIN tasks : tasks[i].pc = "wait_gpt"

InTurn(tsk) == tsk.pc \in {"wait_gpt", "await_persona", "await_vllm"}

\* The task i has gone from the await of one turn to the await of the next.
NextTurn(i) ==
    /\ i \in DOMAIN tasks'
    /\ InTurn(tasks[i])
    /\ InTurn(tasks'[i])
    /\ tasks'[i].t # tasks[i].t

\* C22: with base_prob = 0.1, max_prob = 0.5, decay = 0.4 and
\* recovery_step = 0.05, an update step from p = 0.1 yields p = 0.15 when a
\* character spoke and p = 0.04 when the persona spoke.
C22_ExampleStep ==
    [][\A i \in DOMAIN tasks :
          (NextTurn(i) /\ tasks[i].params = ExampleParams /\ tasks[i].p_prob = 100) =>
              tasks'[i].p_prob = IF tasks'[i].speaker = ExampleParams.name THEN 40 ELSE 150]_vars

\* C22 as amended: with these parameters an update step from p = 0.1 yields
\* p = 0.15 when a character spoke and p = 0.1 when the persona spoke: the
\* product 0.04 is below base_prob and max(base_prob, .) replaces it.
C22_ExampleStepClamped ==
    [][/\ UpdateProb(ExampleParams, 100, "A") = 150
       /\ UpdateProb(ExampleParams, 100, "B") = 150
       /\ UpdateProb(ExampleParams, 100, ExampleParams.name) = 100
       /\ \A i \in DOMAIN tasks :
          /\ (NextTurn(i) /\ tasks[i].params = ExampleParams /\ tasks[i].p_prob = 100) =>
                tasks'[i].p_prob = IF tasks'[i].speaker = ExampleParams.name THEN 100 ELSE 150
          /\ (i \in DOMAIN tasks' /\ tasks[i].pc = "queued" /\ InTurn(tasks'[i])
                /\ tasks'[i].params = ExampleParams) =>
                tasks'[i].p_prob = 150]_vars

\* C22 witness: with the parameters of the example the persona speaks at
\* turn 2 after having spoken at turn 1, and p is 0.1 again.
C22_Witness ==
    \E i \in DOMAIN tasks :
        /\ tasks[i].params = ExampleParams
        /\ tasks[i].t = 2
        /\ tasks[i].speaker = ExampleParams.name
        /\ tasks[i].histories # <<>>
        /\ Last(tasks[i].histories).name = ExampleParams.name
        /\ tasks[i].p_prob = 100

\* The speaker line 164-226 selects for the turn the task i has just gone
\* to, had the draws been r1, r2 and c: the selection reads the history as
\* it is after the step and the probability as it was before the update.
Selected(i, r1, r2, c) ==
    LET characters == GetKey(tasks[i].data, "character_list")
        p_name == tasks[i].params.name
    IN SelectSpeaker(tasks'[i].t, parse_role(characters, p_name), characters, p_name,
                     tasks[i].p_prob, tasks'[i].histories, r1, r2, c)

\* The first draw is not below the persona threshold.
NotPersonaDraw(i, r1) ==
    r1 >= tasks[i].p_prob * (Len(GetKey(tasks[i].data, "character_list")) + 1)

\* C24: at a turn index t > 0 where the random draw is not below the persona
\* threshold, the selected speaker is one of the characters of the cast and
\* never the persona, whatever the previous turn was.
C24_OtherwiseACharacter ==
    [][\A i \in DOMAIN tasks :
          NextTurn(i) =>
              \A r1 \in Draws, r2 \in Draws, c \in 1..2 :
                  NotPersonaDraw(i, r1) =>
                      Selected(i, r1, r2, c) \in Range(GetKey(tasks[i].data, "character_list"))]_vars

\* C25: at a turn index t > 0 where the persona is not selected, if the
\* previous recorded turn is a character turn whose next-speaker field, as
\* the tag parser stored it, is the next:myself tag, the selected speaker is
\* the speaker of that turn, whatever the other draws are.
C25_SelfContinuation ==
    [][\A i \in DOMAIN tasks :
          (/\ NextTurn(i)
           /\ tasks'[i].histories # <<>>
           /\ Last(tasks'[i].histories).name # tasks[i].params.name
           /\ Last(tasks'[i].histories).next_speaker = "[next:myself]") =>
              \A r1 \in Draws, r2 \in Draws, c \in 1..2 :
                  NotPersonaDraw(i, r1) =>
                      Selected(i, r1, r2, c) = Last(tasks'[i].histories).name]_vars

\* The task i has run from its start to the await of turn 0.
FirstTurn(i) ==
    /\ i \in DOMAIN tasks'
    /\ tasks[i].pc = "queued"
    /\ InTurn(tasks'[i])

\* C26: p is updated exactly once per turn index, after the speaker of the
\* turn is selected: p' = max(base_prob, p * decay) if the persona was
\* selected, p' = min(max_prob, p + recovery_step) otherwise, starting from
\* base_prob; no step that stays within a turn modifies p.
C26_UpdateOncePerTurn ==
    [][\A i \in DOMAIN tasks :
          /\ (FirstTurn(i) \/ NextTurn(i)) =>
                LET params == tasks'[i].params
                    before == IF FirstTurn(i) THEN params.base_prob ELSE tasks[i].p_prob
                IN /\ tasks'[i].t = IF FirstTurn(i) THEN 0 ELSE tasks[i].t + 1
                   /\ tasks'[i].speaker = params.name =>
                         tasks'[i].p_prob = Max(params.base_prob, (before * params.decay) \div 100)
                   /\ tasks'[i].speaker # params.name =>
                         tasks'[i].p_prob = Min(params.max_prob, before + params.recovery_step)
          /\ (i \in DOMAIN tasks' /\ InTurn(tasks[i]) /\ InTurn(tasks'[i])
                /\ tasks'[i].t = tasks[i].t) =>
                tasks'[i].p_prob = tasks[i].p_prob]_vars

\* C26 witness: the persona was selected for turn 1 and p is the decayed
\* value of the recovered p of turn 0, above base_prob.
C26_Witness ==
    \E i \in DOMAIN tasks :
        /\ InTurn(tasks[i])
        /\ tasks[i].t = 1
        /\ tasks[i].speaker = tasks[i].params.name
        /\ tasks[i].p_prob > tasks[i].params.base_prob
        /\ tasks[i].p_prob =
              (Min(tasks[i].params.max_prob,
                   tasks[i].params.base_prob + tasks[i].params.recovery_step)
                 * tasks[i].params.decay) \div 100

\* The turn of index t was recorded as the last entry of histories.
Recorded(before, after, t) ==
    /\ Len(after) = Len(before) + 1
    /\ SubSeq(after, 1, Len(before)) = before
    /\ Last(after).index = t

\* C27: when the result of a character turn is the empty string, no turn is
\* recorded for the index t and the generation goes on at the index t + 1:
\* every turn that ends moves to the next index and records one entry (with
\* the index t) or none, a persona turn always one, and the conversation
\* leaves the loop only after the index n_turns - 1; so the number of
\* recorded turns is n_turns less the number of skipped turns.
C27_SkipAndMoveOn ==
    [][\A i \in DOMAIN tasks :
          (/\ i \in DOMAIN tasks'
           /\ tasks[i].pc \in {"await_persona", "await_vllm"}
           /\ tasks'[i] # tasks[i]
           /\ ~tasks'[i].personaError) =>
              /\ InTurn(tasks'[i]) =>
                    /\ tasks'[i].t = tasks[i].t + 1
                    /\ tasks'[i].t < n_turns
                    /\ \/ /\ tasks[i].pc = "await_vllm"
                          /\ tasks'[i].histories = tasks[i].histories
                       \/ Recorded(tasks[i].histories, tasks'[i].histories, tasks[i].t)
                    /\ Len(tasks'[i].histories) <= tasks'[i].t
              /\ ~InTurn(tasks'[i]) => tasks[i].t = n_turns - 1]_vars

\* C27 witness: the turn 0 was recorded, the turn 1 was skipped, and the
\* conversation is at the turn 2.
C27_Witness ==
    \E i \in DOMAIN tasks :
        /\ InTurn(tasks[i])
        /\ tasks[i].t = 2
        /\ Len(tasks[i].histories) = 1
        /\ tasks[i].histories[1].index = 0

(***************************************************************************)
(* Claims about the size and the latency of a batch (SpecBatch).           *)
(***************************************************************************)
\* C28: no bulk call carries more than max_batch prompts, whatever the
\* arrival pattern of the requests and whatever max_latency_ms: neither a
\* call made nor the batch being collected is longer than max_batch.
C28_BatchSizeBound ==
    /\ Len(runner.prompts) <= max_batch
    /\ Len(runner.futures) <= max_batch
    /\ \A k \in DOMAIN calls :
          /\ Len(calls[k].prompts) <= max_batch
          /\ Len(calls[k].futures) <= max_batch

\* C28 witness: three requests were queued before the runner took the first
\* one, and the first bulk call carried max_batch = 2 of them.
C28_Witness ==
    /\ max_batch = 2
    /\ ~lateArrival
    /\ Len(futs) = 3
    /\ calls # <<>>
    /\ Len(calls[1].prompts) = 2

\* The time since the first request of the batch was taken from the queue.
Elapsed == now - runner.start

\* C29: once max_latency has elapsed since the first request of a batch was
\* taken from the queue, no request is added to that batch any more and the
\* next step of the runner issues the bulk call with the batch as it is;
\* with max_latency_ms = 0 every batch has exactly one request.
C29_LatencyCap ==
    [][/\ (runner.pc = "collect" /\ Elapsed >= max_latency /\ runner' # runner) =>
              /\ runner'.pc = "generate"
              /\ runner'.futures = runner.futures
              /\ runner'.prompts = runner.prompts
       /\ (runner.pc = "generate" /\ runner' # runner) =>
              /\ calls' = Append(calls, Last(calls'))
              /\ Last(calls').futures = runner.futures
       /\ max_latency = 0 =>
              /\ runner'.pc # "collect"
              /\ Len(runner'.futures) <= 1
              /\ \A k \in DOMAIN calls' : Len(calls'[k].futures) = 1]_vars

\* C29 witness: the latency window of a batch has run out with
\* max_latency_ms > 0 while the runner was collecting and a request was
\* waiting in the queue.
C29_Witness ==
    /\ max_latency > 0
    /\ runner.pc = "collect"
    /\ Elapsed >= max_latency
    /\ queue # <<>>

(***************************************************************************)
(* Claims about the scenario hash (SpecHash).                              *)
(***************************************************************************)
\* The logical content of a record: the mapping from its keys to its values.
RECURSIVE Content(_)
Content(data) ==
    [k \in {item[1] : item \in Range(data)} |->
        IF k \in DictKeys THEN Content(GetKey(data, k)) ELSE GetKey(data, k)]

\* C23: get_scenario_hash returns the same hash for any two scenario records
\* of a dataset with the same content, whatever the order of their keys at
\* the top and in a nested dict, and the ledger holds one row for them, which
\* every task over such a record addresses.
C23_HashKeyOrder ==
    \A i \in DOMAIN tasks :
        /\ tasks[i].hash = get_scenario_hash(tasks[i].data)
        /\ Cardinality(RowsOf(table, tasks[i].hash)) = 1
        /\ \A j \in DOMAIN tasks :
              Content(tasks[i].data) = Content(tasks[j].data) =>
                  /\ get_scenario_hash(tasks[i].data) = get_scenario_hash(tasks[j].data)
                  /\ RowsOf(table, tasks[i].hash) = RowsOf(table, tasks[j].hash)

\* C23 witness: two tasks ran over records of the same content whose keys
\* are in different orders at the top and in the metadata; the ledger holds
\* one row, and that row is completed.
C23_Witness ==
    /\ Len(tasks) = 2
    /\ Content(tasks[1].data) = Content(tasks[2].data)
    /\ tasks[1].data[1][1] # tasks[2].data[1][1]
    /\ HasKey(tasks[1].data, "metadata")
    /\ GetKey(tasks[1].data, "metadata") # GetKey(tasks[2].data, "metadata")
    /\ Cardinality(table) = 1
    /\ tasks[2].pc = "returned"
    /\ StatusOf(table, tasks[1].hash) = "completed"

(***************************************************************************)
(* Claims about the outcomes of the bulk call (SpecShort).                 *)
(***************************************************************************)
\* C30: every request submitted with put() after the consumer was started
\* eventually has its future resolved, whether the bulk call returns one
\* output per prompt, returns fewer outputs than prompts, or raises.
C30_EveryFutureResolved ==
    \A f \in 1..MaxRequests :
        (f \in DOMAIN futs) ~> (f \in DOMAIN futs /\ futs[f].state = "done")

(***************************************************************************)
(* Claims about a seeded process (SpecSeed).                               *)
(***************************************************************************)
\* The k-th value of the stream of a seed, from its start.
StreamAt(seed, k) ==
    RandomStream(seed)[((k - 1) % Len(RandomStream(seed))) + 1]

\* The conversation over data at the await of its turn t, in a process
\* seeded with seed that runs no other task, when the dialogue model returns
\* its text and the persona collaborator its utterance on every turn:
\* [speaker, p_prob, histories, pos], pos the number of values drawn so far.
RECURSIVE Alone(_, _, _)
Alone(seed, data, t) ==
    LET pool == TableOrder(persona_pool)
        params == pool[(StreamAt(seed, 1) % Len(pool)) + 1]
        characters == GetKey(data, "character_list")
        roles == parse_role(characters, params.name)
    IN IF t = 0
       THEN LET speaker == SelectSpeaker(0, roles, characters, params.name,
                                         params.base_prob, <<>>, 0, 0, 1)
            IN [speaker |-> speaker,
                p_prob |-> UpdateProb(params, params.base_prob, speaker),
                histories |-> <<>>,
                pos |-> 1 + DrawsUsed(0, roles, params.name, params.base_prob,
                                      characters, <<>>, 0, 0, speaker)]
       ELSE LET prev == Alone(seed, data, t - 1)
                text == <<"[cammy]", "hi", "[next:myself]">>
                parsed == parse_utterance(text)
                entry == IF prev.speaker = params.name
                         THEN [index |-> t - 1, name |-> prev.speaker, utterance |-> <<"hi">>,
                               emotion |-> None, speaker |-> None, next_speaker |-> None]
                         ELSE [index |-> t - 1, name |-> prev.speaker, utterance |-> text,
                               emotion |-> parsed.emotion, speaker |-> parsed.speaker,
                               next_speaker |-> parsed.next_speaker]
                histories == Append(prev.histories, entry)
                r1 == StreamAt(seed, prev.pos + 1)
                r2 == StreamAt(seed, prev.pos + 2)
                c == StreamAt(seed, prev.pos + 3) + 1
                speaker == SelectSpeaker(t, roles, characters, params.name,
                                         prev.p_prob, histories, r1, r2, c)
            IN [speaker |-> speaker,
                p_prob |-> UpdateProb(params, prev.p_prob, speaker),
                histories |-> histories,
                pos |-> prev.pos + DrawsUsed(t, roles, params.name, prev.p_prob,
                                             characters, histories, r1, r2, speaker)]

\* C21: for a fixed seed and fixed outputs of the dialogue model and of the
\* persona collaborator, the speakers selected and the values of p of a
\* conversation are determined: at every turn they are those of the
\* conversation run alone with that seed, whichever other scenario tasks run
\* in the process and however they interleave.
C21_SeedDeterminesSpeakers ==
    \A i \in DOMAIN tasks :
        (/\ InTurn(tasks[i])
         /\ tasks[i].histories = Alone(rng.seed, tasks[i].data, tasks[i].t).histories) =>
            /\ tasks[i].speaker = Alone(rng.seed, tasks[i].data, tasks[i].t).speaker
            /\ tasks[i].p_prob = Alone(rng.seed, tasks[i].data, tasks[i].t).p_prob

(***************************************************************************)
(* Claims about the transcript, the reset and the reads of the ledger.     *)
(***************************************************************************)
\* The row of the hash h.
RowOf(tbl, h) == CHOOSE r \in RowsOf(tbl, h) : TRUE

\* C36: after a scenario task has returned or raised, a ledger row of its
\* scenario with the status completed has its transcript in
\* conversations_dir: no row is left completed when the write of the
\* transcript failed.
C36_CompletedHasTranscript ==
    \A i \in DOMAIN tasks :
        (Finished(tasks[i]) /\ StatusOf(table, tasks[i].hash) = "completed") =>
            RowOf(table, tasks[i].hash).result.id \in files

\* C37: reset_failed_to_pending changes exactly the failed rows, to pending
\* rows without result, returns their number, and leaves every pending and
\* every completed row as it is.
C37_ResetFrame ==
    [][ResetStep =>
         /\ \A r \in table :
               IF r.status = "failed"
               THEN /\ r \notin table'
                    /\ RowsOf(table', r.scenario_hash) = {PendingRow(r.scenario_hash)}
               ELSE /\ r \in table'
                    /\ RowsOf(table', r.scenario_hash) = {r}
         /\ {r.scenario_hash : r \in table'} = {r.scenario_hash : r \in table}
         /\ RowsAffectedByReset(table) = Cardinality(table \ table')
         /\ RowsAffectedByReset(table) = Cardinality({r \in table : r.status = "failed"})
         /\ RowsAffectedByReset(table') = 0]_vars

\* C37 witness: a retry run has reset the failed rows of a ledger that also
\* holds a completed row, and that row still has its result.
C37_Witness ==
    /\ driver.pc = "running"
    /\ driver.mode = "retry"
    /\ \A i \in DOMAIN tasks : tasks[i].pc = "queued"
    /\ \E r \in table : r.status = "completed" /\ r.result # NULL
    /\ \E r \in table : r.status = "pending"

\* The entries of ds whose row has the status st, in the order of ds.
EntriesWithStatus(ds, tbl, st) ==
    SelectSeq(ds, LAMBDA d : StatusOf(tbl, get_scenario_hash(d)) = st)

\* C38: get_pending_scenarios and get_failed_scenarios are reads: they return
\* the entries of the dataset whose hash has a pending (a failed) row, in
\* dataset order, and no entry without row or with another status; a retry
\* run that finds no failed scenario leaves every row as it is, and the
\* tasks a run creates are those entries.
C38_ReadsReturnByStatus ==
    [][driver.pc = "idle" =>
         /\ \A ds \in Datasets :
               /\ get_pending_scenarios(ds, table) = EntriesWithStatus(ds, table, "pending")
               /\ get_failed_scenarios(ds, table) = EntriesWithStatus(ds, table, "failed")
               /\ (MainRetry(ds) /\ get_failed_scenarios(ds, table) = <<>>) => table' = table
         /\ (driver'.pc = "running" /\ driver'.mode = "normal") =>
               \E ds \in Datasets :
                  [i \in DOMAIN tasks' |-> tasks'[i].data] = EntriesWithStatus(ds, table', "pending")
         /\ (driver'.pc = "running" /\ driver'.mode = "retry") =>
               \E ds \in Datasets :
                  [i \in DOMAIN tasks' |-> tasks'[i].data] = EntriesWithStatus(ds, table, "failed")]_vars

\* C38 witness: a retry run was started over a dataset of two scenarios of
\* which one had failed and the other had not: the one task of the run is
\* the task of the failed one.
C38_Witness ==
    /\ driver.pc = "running"
    /\ driver.mode = "retry"
    /\ Len(tasks) = 1
    /\ tasks[1].pc = "queued"
    /\ Cardinality(table) = 2
    /\ \E r \in table : r.status = "completed"

(***************************************************************************)
(* Claims about p and the skipped turns (SpecConv).                        *)
(***************************************************************************)
\* The value of p after the update of the turn t, when sp[k] was selected at
\* the turn k, for k in 0..t.
RECURSIVE PAfter(_, _, _)
PAfter(params, sp, t) ==
    LET before == IF t = 0 THEN params.base_prob ELSE PAfter(params, sp, t - 1)
    IN IF sp[t] = params.name
       THEN Max(params.base_prob, (before * params.decay) \div 100)
       ELSE Min(params.max_prob, before + params.recovery_step)

\* C39: p is updated for a turn index before the generation is awaited, so
\* also when the turn is then skipped: at the await of the turn t, p is the
\* result of one update per index 0..t, for a sequence of selected speakers
\* that has the recorded speaker at every recorded index and the speaker of
\* the turn in progress at t, whichever of the turns were recorded.
C39_UpdateAlsoWhenSkipped ==
    \A i \in DOMAIN tasks :
        InTurn(tasks[i]) =>
            LET tsk == tasks[i]
                names == Range(GetKey(tsk.data, "character_list")) \cup {tsk.params.name}
            IN \E sp \in [0..tsk.t -> names] :
                  /\ sp[tsk.t] = tsk.speaker
                  /\ \A k \in DOMAIN tsk.histories :
                        sp[tsk.histories[k].index] = tsk.histories[k].name
                  /\ tsk.p_prob = PAfter(tsk.params, sp, tsk.t)

\* C39 witness: the turns 0 and 1 were skipped and p, at the turn 2 of a
\* character, has recovered three times.
C39_Witness ==
    \E i \in DOMAIN tasks :
        /\ InTurn(tasks[i])
        /\ tasks[i].t = 2
        /\ tasks[i].histories = <<>>
        /\ tasks[i].speaker # tasks[i].params.name
        /\ tasks[i].p_prob > tasks[i].params.base_prob + tasks[i].params.recovery_step
        /\ tasks[i].p_prob =
              Min(tasks[i].params.max_prob,
                  tasks[i].params.base_prob + 3 * tasks[i].params.recovery_step)

(***************************************************************************)
(* Claims about the tags of a model output (SpecParse).                    *)
(***************************************************************************)
\* The first token of text that is in the set S, None when there is none.
FirstIn(text, S) ==
    IF \E k \in DOMAIN text : text[k] \in S
    THEN text[CHOOSE k \in DOMAIN text :
                 /\ text[k] \in S
                 /\ \A j \in 1..(k - 1) : text[j] \notin S]
    ELSE None

\* The recorded turns of the characters: those whose text went through
\* parse_utterance.
ParsedTurns(tsk) ==
    {tsk.histories[k] : k \in {j \in DOMAIN tsk.histories :
                                  tsk.histories[j].name # tsk.params.name}}

\* C32: parse_utterance returns as role-echo the first bracket token of the
\* text that is neither an emotion: token nor a next: token, None when there
\* is none; no emotion: or next: token is returned as the role-echo.
C32_RoleEchoFirstUnrecognized ==
    \A i \in DOMAIN tasks : \A e \in ParsedTurns(tasks[i]) :
        /\ e.speaker = FirstIn(e.utterance, OtherTags)
        /\ e.speaker \notin EmotionTags \cup NextTags

\* C33: parse_utterance returns as next-speaker hint the first next: token of
\* the text, and the default "[next:user_00]" when the text has no next:
\* token.
C33_FirstNextToken ==
    \A i \in DOMAIN tasks : \A e \in ParsedTurns(tasks[i]) :
        e.next_speaker = IF FirstIn(e.utterance, NextTags) = None
                         THEN DefaultNext
                         ELSE FirstIn(e.utterance, NextTags)

(***************************************************************************)
(* Claims about the context of a turn (SpecConv).                          *)
(***************************************************************************)
\* The place of a participant in the list of the characters followed by the
\* persona, counted from 0.
PlaceOf(tsk, name) ==
    LET roles == Append(GetKey(tsk.data, "character_list"), tsk.params.name)
    IN (CHOOSE k \in DOMAIN roles : roles[k] = name) - 1

\* C34: the context built for a turn has one message per recorded earlier
\* turn, in the order of the transcript; a message has the role assistant
\* exactly when its turn was spoken by the upcoming speaker, and otherwise
\* the role user_NN with NN the index of its speaker, the same for the whole
\* conversation and different for different participants.
C34_ContextRelativeToSpeaker ==
    \A i \in DOMAIN tasks :
        InTurn(tasks[i]) =>
            LET tsk == tasks[i]
                msgs == hist_msgs(tsk)
            IN /\ Len(msgs) = Len(tsk.histories)
               /\ \A k \in DOMAIN tsk.histories :
                     /\ tsk.histories[k].index < tsk.t
                     /\ (msgs[k].role = AssistantRole) <=> (tsk.histories[k].name = tsk.speaker)
                     /\ tsk.histories[k].name # tsk.speaker =>
                           LET place == PlaceOf(tsk, tsk.histories[k].name)
                           IN /\ msgs[k].role.kind = "user_"
                              /\ msgs[k].role.nn = <<place \div 10, place % 10>>
                     /\ msgs[k].content \in {tsk.histories[k].utterance,
                                              strip_tags(tsk.histories[k].utterance)}
                     /\ \A j \in DOMAIN tsk.histories :
                           /\ j < k => tsk.histories[j].index < tsk.histories[k].index
                           /\ (tsk.histories[j].name # tsk.histories[k].name) =>
                                 msgs[j].role # msgs[k].role
                           /\ (tsk.histories[j].name = tsk.histories[k].name) =>
                                 msgs[j].role = msgs[k].role

\* C34 witness: at the turn 2 the upcoming speaker is the speaker of the
\* turn 0, and the turn 1 was spoken by another participant.
C34_Witness ==
    \E i \in DOMAIN tasks :
        /\ InTurn(tasks[i])
        /\ tasks[i].t = 2
        /\ Len(tasks[i].histories) = 2
        /\ tasks[i].histories[1].name = tasks[i].speaker
        /\ tasks[i].histories[2].name # tasks[i].speaker
        /\ hist_msgs(tasks[i])[1].role = AssistantRole
        /\ hist_msgs(tasks[i])[2].role # AssistantRole

\* C35: the bracket tag tokens are stripped from the text used as content:
\* in the context built for a turn, no message, with the role assistant or
\* with a role user_NN, has a bracket tag token in its content.
C35_NoTagInContext ==
    \A i \in DOMAIN tasks :
        InTurn(tasks[i]) =>
            \A k \in DOMAIN hist_msgs(tasks[i]) :
                \A n \in DOMAIN hist_msgs(tasks[i])[k].content :
                    ~IsTag(hist_msgs(tasks[i])[k].content[n])

(***************************************************************************)
(* Claims about the life of the runner (SpecDist).                         *)
(***************************************************************************)
\* C31: the consumer loop of the queue never ends: after every outcome of a
\* bulk call, an error raised while the results are distributed after some
\* futures were resolved included, the runner is back at waiting for the
\* next request.
C31_RunnerNeverStops ==
    [][(runner.pc = "generate" /\ runner' # runner) =>
          /\ runner'.pc = "get"
          /\ runner'.futures = <<>>]_vars

====
